---- MODULE Spec2Model ----
(***************************************************************************)
(* Model of AlertBridgeClient (src/web/static/js/alerts.js): the WebSocket *)
(* connection lifecycle with its bounded reconnect, the inbound message    *)
(* dispatch (handleMessage) and the alert reconciliation                   *)
(* (addOrUpdateAlert) with the sound / notification side effects.          *)
(*                                                                         *)
(* One action is one reaction of the single-threaded event loop: a         *)
(* WebSocket event handler, a timer callback or a click handler, run to    *)
(* completion (or up to the exception that aborts it).                     *)
(***************************************************************************)
EXTENDS Integers, Sequences, FiniteSets, TLC

(* ------------------------------ bounds --------------------------------- *)
\* live connections plus pending reconnect timers the model follows
MaxTokens == 2
\* alert ids an inbound message may carry
MaxId == 2
\* longest alerts_list snapshot an inbound message may carry
MaxSnapshot == 2
\* handlers that may wait at an await at the same time
MaxPending == 2
\* sounds the catalog may hold when one more is uploaded
MaxSounds == 2

(* ------------------------- program constants --------------------------- *)
maxReconnectAttempts == 5

\* the two reserved entries of the sound dropdowns ('Без звука' and
\* 'Системный звук' in the source, written here in ASCII)
NoSoundName == "Bez zvuka"
SystemSoundName == "Sistemnyj zvuk"

DefaultAlertSound == "alert.wav"
DefaultResolvedSound == "resolved.wav"
DefaultVolume == 70
\* the value of the server-url input when the page loads
DefaultUrl == "ws://bridge-0"

(* ------------------------------ inputs --------------------------------- *)
Ids == 1..MaxId
Statuses == {"firing", "resolved"}
Severities == {"critical", "warning"}
Alerts == [id : Ids, status : Statuses, severity : Severities]

\* the alerts_list payloads: every sequence, repeated ids and resolved
\* entries included, of alerts of one severity
SnapshotAlerts == {a \in Alerts : a.severity = "critical"}
Snapshots == UNION {[1..n -> SnapshotAlerts] : n \in 0..MaxSnapshot}

\* the alerts of one id and one severity
SoundAlerts == {a \in SnapshotAlerts : a.id = 1}

\* the alerts_list payloads of firing alerts of every severity
QuerySnapshots ==
    UNION {[1..n -> {a \in Alerts : a.status = "firing"}] : n \in 0..MaxSnapshot}

\* a sound of the catalog; its id is a JSON string or a JSON number, kept
\* as <<type, text>>
Sound(i, n) == [id |-> i, name |-> n, url |-> TRUE]
SoundLists == {<<>>, <<Sound(<<"string", "s1">>, DefaultAlertSound),
                       Sound(<<"string", "s2">>, DefaultResolvedSound)>>}

\* the sound the backend returns for an upload
UploadedName == "siren"

\* event.target.files[0] of the file input: none (<<>>) or the file
\* siren.wav, its name kept as its dot-separated parts
Files == {<<>>, <<UploadedName, "wav">>}

\* what prompt() returns: null (<<>>), the empty string or a name
PromptAnswers == {<<>>, <<"">>, <<UploadedName>>}
UploadedSounds == {Sound(<<"string", "s3">>, UploadedName), Sound(<<"number", "3">>, UploadedName)}

\* dataset.id of a delete button: the id as the string the attribute holds
DatasetId(id) == id[2]
DatasetIds == {"s2", "3"}

\* what GET /api/settings/ answers: the first has no field (the JSON null
\* or {})
SettingsAnswers ==
    { <<>>,
      [showNotifications |-> FALSE, alertSound |-> NoSoundName, notification_volume |-> 10],
      [showNotifications |-> TRUE, alertSound |-> UploadedName, resolvedSound |-> SystemSoundName,
       notification_volume |-> 70] }

Slots == 1..MaxTokens
\* the options of the severity-filter select
Filters == {"all", "critical", "warning"}

VARIABLES
    ws,                \* this.ws: the slot of the WebSocket the client holds
    readyState,        \* readyState of every WebSocket object ever created and not yet collected
    connected,         \* this.connected
    bridgeConnected,   \* this.bridgeConnected (FALSE while it holds undefined)
    reconnectAttempts, \* this.reconnectAttempts
    timers,            \* pending setTimeout(() => this.connectWebSocket()) callbacks
    alerts,            \* this.alerts (<<>> while it holds undefined)
    sounds,            \* this.sounds (<<>> while it holds undefined)
    undef,             \* the fields among alerts, sounds, bridgeConnected that hold undefined
    settings,          \* this.settings
    permission,        \* Notification.permission
    fx,                \* calls to the outside made by the last reaction, in order
    thrown,            \* exception that left the last reaction uncaught
    op,                \* the last reaction and its argument
    storage,           \* localStorage item 'alertbridge-settings': <<>> or <<the stored settings>>
    pending,           \* the saveSettings calls waiting at an await: the form and the stage
    awaiting,          \* the openSettings, uploadSound and deleteSound calls waiting at one
    filter,            \* value of the severity-filter select
    rendered,          \* what renderAlerts wrote to the table in the last reaction:
                       \* <<>> if it was not reached, else <<the alerts it made rows of>>
    hLastApplied,      \* history: per id, status of the last alert addOrUpdateAlert applied since the last snapshot
    hClosures,         \* history: unexpected close events since the last open event or click
    hRetries,          \* history: reconnects scheduled since the constructor or the last reconnect click
    hUserClosed        \* history: the last click was a disconnect

vars == <<ws, readyState, connected, bridgeConnected, reconnectAttempts, timers,
          alerts, sounds, undef, settings, permission,
          fx, thrown, op, storage, pending, awaiting, filter, rendered,
          hLastApplied, hClosures, hRetries, hUserClosed>>

connVars == <<ws, readyState, connected, reconnectAttempts, timers>>
dataVars == <<alerts, sounds, settings>>
permVars == <<permission>>
storeVars == <<storage, pending, awaiting>>
histVars == <<hLastApplied, hClosures, hRetries, hUserClosed>>

(* ------------------------------ helpers -------------------------------- *)
Call(c, a) == [call |-> c, arg |-> a]

\* the record of a reaction: its name and, where it has them, the alert it
\* applied (id, status, severity, the index findIndex returned, and whether
\* the reaction before it pushed the same id), the snapshot it installed or
\* the WebSocket whose event it handled, or the settings form it was about
Op(n) == [name |-> n, id |-> 0, status |-> "", severity |-> "", index |-> -1,
          chained |-> FALSE, list |-> <<>>, malformed |-> FALSE, conn |-> 0,
          form |-> <<>>]

Live(rs) == {c \in Slots : rs[c] # "closed"}

Tokens == Cardinality(Live(readyState)) + timers

\* findIndex with a predicate that never matches
FindIndexNever(s, id) == -1

\* Array.prototype.findIndex(a => a.id === id): 0-based, -1 when absent
FindIndex(s, id) ==
    IF \E i \in 1..Len(s) : s[i].id = id
    THEN (CHOOSE i \in 1..Len(s) : s[i].id = id /\ \A j \in 1..(i-1) : s[j].id # id) - 1
    ELSE -1

\* splice(index, 0): removes nothing
SpliceNothing(s, index) == s

\* Array.prototype.splice(index, 1)
Splice(s, index) == [i \in 1..(Len(s)-1) |-> IF i <= index THEN s[i] ELSE s[i+1]]

\* this.alerts[index] = alert
SetAt(s, index, v) == [s EXCEPT ![index + 1] = v]

(* --------------------------- side effects ------------------------------ *)
\* playSound(soundName): the calls it makes and the exception it raises.
\* this.sounds.find raises a TypeError while this.sounds holds undefined.
playSound(soundName) ==
    IF soundName = "" \/ soundName = NoSoundName
    THEN [fx |-> <<>>, thrown |-> "none"]
    ELSE IF soundName = SystemSoundName
    THEN [fx |-> <<Call("systemBeep", "")>>, thrown |-> "none"]
    ELSE IF "sounds" \in undef
    THEN [fx |-> <<>>, thrown |-> "TypeError"]
    ELSE IF \E i \in 1..Len(sounds) : sounds[i].name = soundName
    THEN LET i == CHOOSE i \in 1..Len(sounds) :
                    /\ sounds[i].name = soundName
                    /\ \A j \in 1..(i-1) : sounds[j].name # soundName
         IN  IF sounds[i].url
             THEN [fx |-> <<Call("Audio.play", soundName)>>, thrown |-> "none"]
             ELSE [fx |-> <<>>, thrown |-> "none"]
    ELSE [fx |-> <<>>, thrown |-> "none"]

\* showNotification(title, alert): the calls it makes
showNotification(title) ==
    IF ~settings.showNotifications THEN <<>>
    ELSE IF permission = "granted" THEN <<Call("Notification", title)>>
    ELSE IF permission # "denied" THEN <<Call("requestPermission", "")>>
    ELSE <<>>

\* sendMessage(message) if it called ws.send whatever the readyState
sendMessageUnguarded(rs, type) == <<Call("send", type)>>

\* sendMessage(message) with the readyState table rs in force when it runs
sendMessage(rs, type) ==
    IF ws # 0 /\ rs[ws] = "open" THEN <<Call("send", type)>> ELSE <<>>

(* ------------------------------ rendering ------------------------------ *)
\* Array.prototype.filter(a => a.severity === f)
RECURSIVE FilterSeverity(_, _)
FilterSeverity(s, f) ==
    IF s = <<>> THEN <<>>
    ELSE IF Head(s).severity = f
         THEN <<Head(s)>> \o FilterSeverity(Tail(s), f)
         ELSE FilterSeverity(Tail(s), f)

\* renderAlerts() if it ignored the severity-filter value
filteredAlertsIgnoring(s, f) == s

\* renderAlerts(): the filteredAlerts it puts in the table
filteredAlerts(s, f) == IF f # "all" THEN FilterSeverity(s, f) ELSE s

\* the branch index !== -1 if an update of a stored alert played the alert
\* sound and showed the notification as a new alert does
alertFoundLoud(index, alert) ==
    IF alert.status = "resolved"
    THEN LET ps == playSound(settings.resolvedSound) IN
         [alerts |-> Splice(alerts, index),
          fx     |-> <<Call("playSound", settings.resolvedSound)>> \o ps.fx,
          thrown |-> ps.thrown]
    ELSE LET ps == playSound(settings.alertSound) IN
         [alerts |-> SetAt(alerts, index, alert),
          fx     |-> <<Call("playSound", settings.alertSound)>> \o ps.fx
                     \o (IF ps.thrown = "none"
                         THEN showNotification("Novyj alert") ELSE <<>>),
          thrown |-> ps.thrown]

(* ----------------------- alert reconciliation -------------------------- *)
\* addOrUpdateAlert, the branch index !== -1: a resolved alert removes the
\* entry and plays the resolved sound, any other replaces the entry
alertFound(index, alert) ==
    IF alert.status = "resolved"
    THEN LET ps == playSound(settings.resolvedSound) IN
         [alerts |-> Splice(alerts, index),
          fx     |-> <<Call("playSound", settings.resolvedSound)>> \o ps.fx,
          thrown |-> ps.thrown]
    ELSE [alerts |-> SetAt(alerts, index, alert), fx |-> <<>>, thrown |-> "none"]

\* the branch index === -1 without the status test: a resolved alert with
\* no entry plays the resolved sound
alertAbsentLoud(alert) ==
    IF alert.status = "firing"
    THEN LET ps == playSound(settings.alertSound) IN
         [alerts |-> Append(alerts, alert),
          fx     |-> <<Call("playSound", settings.alertSound)>> \o ps.fx
                     \o (IF ps.thrown = "none"
                         THEN showNotification("Novyj alert") ELSE <<>>),
          thrown |-> ps.thrown]
    ELSE LET ps == playSound(settings.resolvedSound) IN
         [alerts |-> alerts,
          fx     |-> <<Call("playSound", settings.resolvedSound)>> \o ps.fx,
          thrown |-> ps.thrown]

\* addOrUpdateAlert, the branch index === -1: a firing alert is pushed, the
\* alert sound played and the notification shown; any other is ignored.  A
\* throwing playSound aborts the handler after the push.
alertAbsent(alert) ==
    IF alert.status = "firing"
    THEN LET ps == playSound(settings.alertSound) IN
         [alerts |-> Append(alerts, alert),
          fx     |-> <<Call("playSound", settings.alertSound)>> \o ps.fx
                     \o (IF ps.thrown = "none"
                         THEN showNotification("Novyj alert") ELSE <<>>),
          thrown |-> ps.thrown]
    ELSE [alerts |-> alerts, fx |-> <<>>, thrown |-> "none"]

\* addOrUpdateAlert(alert): the new this.alerts, the calls made and the
\* exception raised (this.alerts.findIndex raises a TypeError while
\* this.alerts holds undefined)
addOrUpdateAlert(alert) ==
    IF "alerts" \in undef
    THEN [alerts |-> alerts, fx |-> <<>>, thrown |-> "TypeError"]
    ELSE LET index == FindIndex(alerts, alert.id) IN
         IF index # -1 THEN alertFound(index, alert) ELSE alertAbsent(alert)

\* the last reaction pushed the alert with this id (an Arrived transition)
JustArrived(id) ==
    /\ op.name \in {"alert", "bridge.message"}
    /\ ~op.malformed
    /\ "alerts" \notin undef
    /\ op.id = id
    /\ op.status = "firing"
    /\ op.index = -1

\* the part of a reaction that applies one alert
ApplyAlert(name, alert) ==
    LET r == addOrUpdateAlert(alert) IN
    /\ alerts' = r.alerts
    /\ fx' = r.fx
    /\ thrown' = r.thrown
    /\ op' = [Op(name) EXCEPT
                !.id = alert.id,
                !.status = alert.status,
                !.severity = alert.severity,
                !.index = IF "alerts" \in undef THEN -1 ELSE FindIndex(alerts, alert.id),
                !.chained = JustArrived(alert.id)]
    /\ rendered' = IF r.thrown = "none" THEN <<filteredAlerts(r.alerts, filter)>> ELSE <<>>
    /\ hLastApplied' = IF "alerts" \in undef THEN hLastApplied
                       ELSE [hLastApplied EXCEPT ![alert.id] = alert.status]
    /\ UNCHANGED <<storeVars, filter, connVars, bridgeConnected, sounds, undef, settings, permission,
                   hClosures, hRetries, hUserClosed>>

(* ------------------------------- Init ---------------------------------- *)
\* the state the constructor leaves: one WebSocket being connected; the
\* settings are the built-in ones, or the ones loadSettings found in the
\* localStorage item (here: the built-in ones with showNotifications off)
Init ==
    /\ ws = 1
    /\ readyState = [c \in Slots |-> IF c = 1 THEN "connecting" ELSE "closed"]
    /\ connected = FALSE
    /\ bridgeConnected = FALSE
    /\ reconnectAttempts = 0
    /\ timers = 0
    /\ alerts = <<>>
    /\ sounds = <<>>
    /\ undef = {}
    /\ settings \in [bridgeServerUrl : {DefaultUrl},
                     alertSound : {DefaultAlertSound},
                     resolvedSound : {DefaultResolvedSound},
                     volume : {DefaultVolume},
                     autoConnect : {TRUE},
                     showNotifications : BOOLEAN]
    /\ storage = IF settings.showNotifications THEN <<>> ELSE <<settings>>
    /\ pending = <<>>
    /\ awaiting = <<>>
    /\ filter = "all"
    /\ rendered = <<>>
    /\ permission \in {"default", "granted", "denied"}
    /\ fx = <<>>
    /\ thrown = "none"
    /\ op = Op("constructor")
    /\ hLastApplied = [i \in Ids |-> "none"]
    /\ hClosures = 0
    /\ hRetries = 0
    /\ hUserClosed = FALSE

(* ------------------------ connection lifecycle ------------------------- *)
\* connectWebSocket(): this.ws = new WebSocket(wsUrl), in the first unused slot
connectWebSocket(rs) ==
    LET c == CHOOSE c \in Slots : rs[c] = "closed" /\ \A d \in 1..(c-1) : rs[d] # "closed"
    IN  /\ ws' = c
        /\ readyState' = [rs EXCEPT ![c] = "connecting"]

\* an onopen that also resets the retry counter
OnOpenResetting(c) ==
    /\ readyState[c] = "connecting"
    /\ readyState' = [readyState EXCEPT ![c] = "open"]
    /\ connected' = TRUE
    /\ reconnectAttempts' = 0
    /\ fx' = sendMessage(readyState', "get_alerts") \o sendMessage(readyState', "get_sounds")
    /\ thrown' = "none"
    /\ op' = [Op("onopen") EXCEPT !.conn = c]
    /\ hClosures' = 0
    /\ rendered' = <<>>
    /\ UNCHANGED <<storeVars, filter, ws, bridgeConnected, timers, dataVars, undef,
                   permVars, hLastApplied, hRetries, hUserClosed>>

\* ws.onopen of connection c
OnOpen(c) ==
    /\ readyState[c] = "connecting"
    /\ readyState' = [readyState EXCEPT ![c] = "open"]
    /\ connected' = TRUE
    /\ fx' = sendMessage(readyState', "get_alerts") \o sendMessage(readyState', "get_sounds")
    /\ thrown' = "none"
    /\ op' = [Op("onopen") EXCEPT !.conn = c]
    /\ hClosures' = 0
    /\ rendered' = <<>>
    /\ UNCHANGED <<storeVars, filter, ws, bridgeConnected, reconnectAttempts, timers, dataVars, undef,
                   permVars, hLastApplied, hRetries, hUserClosed>>

\* the guard written with <= : one retry too many
mayReconnectInclusive == reconnectAttempts <= maxReconnectAttempts

\* ws.onclose without the guard: every closure schedules a reconnect
mayReconnectAlways == TRUE

\* the guard of the reconnect in ws.onclose
mayReconnect == reconnectAttempts < maxReconnectAttempts

\* ws.onclose of connection c: the connection failed, was dropped, or
\* finished the closing handshake that ws.close() started
OnClose(c) ==
    /\ readyState[c] # "closed"
    /\ readyState' = [readyState EXCEPT ![c] = "closed"]
    /\ connected' = FALSE
    /\ bridgeConnected' = FALSE
    /\ undef' = undef \ {"bridgeConnected"}
    /\ IF mayReconnect
       THEN /\ reconnectAttempts' = reconnectAttempts + 1
            /\ timers' = timers + 1
            /\ hRetries' = hRetries + 1
       ELSE UNCHANGED <<reconnectAttempts, timers, hRetries>>
    /\ fx' = <<>>
    /\ thrown' = "none"
    /\ op' = [Op("onclose") EXCEPT !.conn = c]
    /\ hClosures' = IF readyState[c] = "closing" THEN hClosures ELSE hClosures + 1
    /\ rendered' = <<>>
    /\ UNCHANGED <<storeVars, filter, ws, dataVars, permVars, hLastApplied, hUserClosed>>

\* the setTimeout callback of onclose: () => this.connectWebSocket()
OnTimer ==
    /\ timers > 0
    /\ timers' = timers - 1
    /\ connectWebSocket(readyState)
    /\ fx' = <<>>
    /\ thrown' = "none"
    /\ op' = Op("timer")
    /\ rendered' = <<>>
    /\ UNCHANGED <<storeVars, filter, connected, bridgeConnected, reconnectAttempts, dataVars, undef,
                   permVars, histVars>>

\* toggleConnection(), this.connected true: this.ws.close()
ToggleDisconnect ==
    /\ connected
    /\ readyState' = IF readyState[ws] \in {"connecting", "open"}
                     THEN [readyState EXCEPT ![ws] = "closing"]
                     ELSE readyState
    /\ fx' = <<Call("close", "")>>
    /\ thrown' = "none"
    /\ op' = Op("disconnect")
    /\ hClosures' = 0
    /\ hUserClosed' = TRUE
    /\ rendered' = <<>>
    /\ UNCHANGED <<storeVars, filter, ws, connected, bridgeConnected, reconnectAttempts, timers, dataVars,
                   undef, permVars, hLastApplied, hRetries>>

\* toggleConnection(), this.connected false: reset the counter and reconnect
ToggleReconnect ==
    /\ ~connected
    /\ Tokens < MaxTokens
    /\ reconnectAttempts' = 0
    /\ connectWebSocket(readyState)
    /\ fx' = <<>>
    /\ thrown' = "none"
    /\ op' = Op("reconnect")
    /\ hClosures' = 0
    /\ hRetries' = 0
    /\ hUserClosed' = FALSE
    /\ rendered' = <<>>
    /\ UNCHANGED <<storeVars, filter, connected, bridgeConnected, timers, dataVars, undef, permVars,
                   hLastApplied>>

toggleConnection == ToggleDisconnect \/ ToggleReconnect

\* the user grants, denies or resets the site's notification permission (in
\* the prompt that Notification.requestPermission() opens, or in the
\* browser's site settings)
PermissionChange ==
    /\ \E p \in {"default", "granted", "denied"} : p # permission /\ permission' = p
    /\ fx' = <<>>
    /\ thrown' = "none"
    /\ op' = Op("permission")
    /\ rendered' = <<>>
    /\ UNCHANGED <<storeVars, filter, connVars, bridgeConnected, dataVars, undef, histVars>>

(* ------------------------------ settings ------------------------------ *)
\* what the settings dialog can hold when Save is clicked
Forms ==
    { [bridgeServerUrl |-> DefaultUrl, autoConnect |-> TRUE, showNotifications |-> TRUE,
       notificationVolume |-> DefaultVolume, alertSound |-> DefaultAlertSound,
       resolvedSound |-> DefaultResolvedSound],
      [bridgeServerUrl |-> "ws://bridge-1", autoConnect |-> FALSE, showNotifications |-> FALSE,
       notificationVolume |-> 30, alertSound |-> NoSoundName,
       resolvedSound |-> SystemSoundName],
      [bridgeServerUrl |-> "ws://bridge-1", autoConnect |-> TRUE, showNotifications |-> TRUE,
       notificationVolume |-> 100, alertSound |-> SystemSoundName,
       resolvedSound |-> NoSoundName] }

\* the object spread { ...a, ...b }
Spread(a, b) ==
    [k \in DOMAIN a \cup DOMAIN b |-> IF k \in DOMAIN b THEN b[k] ELSE a[k]]

\* the sequence s without its i-th element
RemoveAt(s, i) == [k \in 1..(Len(s) - 1) |-> IF k < i THEN s[k] ELSE s[k + 1]]

\* how the parsing of the backend's answer can end: the answer is
\* { success: true, ... } ("success"), another object ("failure"), the JSON
\* null ("null") or not JSON ("notjson")
Outcomes == {"success", "failure", "null", "notjson"}

\* the exception that ends the handler on that outcome: reading a property
\* of null is a TypeError, response.json() rejects with a SyntaxError
Rejection(outcome) ==
    CASE outcome = "null"    -> "TypeError"
      [] outcome = "notjson" -> "SyntaxError"
      [] OTHER -> "none"

\* a handler waiting at an await: the call, its argument and where it
\* waits ("read": the FileReader, "fetch": await fetch, "json": await
\* response.json())
Waiting(c, a, stage) == [call |-> c, arg |-> a, stage |-> stage]

\* the i-th waiting entry of s moved to the stage
AtStage(s, i, stage) == [s EXCEPT ![i].stage = stage]

\* the continuation after await fetch(...) of the i-th waiting call of the
\* handler: the fetch was answered and response.json() is awaited (ok), or
\* it failed and the TypeError it rejected with ends the handler
Answered(name, i, ok) ==
    /\ i \in 1..Len(awaiting)
    /\ awaiting[i].call = name
    /\ awaiting[i].stage = "fetch"
    /\ awaiting' = IF ok THEN AtStage(awaiting, i, "json") ELSE RemoveAt(awaiting, i)
    /\ fx' = <<>>
    /\ thrown' = IF ok THEN "none" ELSE "TypeError"
    /\ op' = Op(name \o (IF ok THEN ".answered" ELSE ".rejected"))
    /\ rendered' = <<>>
    /\ UNCHANGED <<storage, pending, filter, connVars, bridgeConnected, dataVars, undef,
                   permVars, histVars>>

\* saveSettings() up to its first await: the form is read and posted
SaveSettingsSubmit(form) ==
    /\ Len(pending) + Len(awaiting) < MaxPending
    /\ pending' = Append(pending, [form |-> form, stage |-> "fetch"])
    /\ fx' = <<Call("fetch", "/api/settings/update/")>>
    /\ thrown' = "none"
    /\ op' = [Op("save.submit") EXCEPT !.form = <<form>>]
    /\ rendered' = <<>>
    /\ UNCHANGED <<storage, awaiting, filter, connVars, bridgeConnected, dataVars, undef, permVars,
                   histVars>>

\* saveSettings() between its two awaits, for the i-th call still waiting:
\* the fetch was answered and response.json() is awaited (ok), or it failed
SaveSettingsAnswered(i, ok) ==
    /\ i \in 1..Len(pending)
    /\ pending[i].stage = "fetch"
    /\ pending' = IF ok THEN AtStage(pending, i, "json") ELSE RemoveAt(pending, i)
    /\ fx' = <<>>
    /\ thrown' = IF ok THEN "none" ELSE "TypeError"
    /\ op' = [Op(IF ok THEN "save.answered" ELSE "save.rejected")
                EXCEPT !.form = <<pending[i].form>>]
    /\ rendered' = <<>>
    /\ UNCHANGED <<storage, awaiting, filter, connVars, bridgeConnected, dataVars, undef,
                   permVars, histVars>>

\* saveSettings() after await response.json(), for the i-th call still
\* waiting
SaveSettingsResponse(i, outcome) ==
    /\ i \in 1..Len(pending)
    /\ pending[i].stage = "json"
    /\ pending' = RemoveAt(pending, i)
    /\ settings' = IF outcome = "success" THEN Spread(settings, pending[i].form) ELSE settings
    /\ fx' = CASE outcome = "success" -> <<Call("showSnackbar", "Nastrojki sohraneny"),
                                           Call("closeSettings", "")>>
               [] outcome = "failure" -> <<Call("showSnackbar", "Oshibka sohranenija")>>
               [] OTHER -> <<>>
    /\ thrown' = Rejection(outcome)
    /\ op' = [Op("save." \o outcome) EXCEPT !.form = <<pending[i].form>>]
    /\ rendered' = <<>>
    /\ UNCHANGED <<storage, awaiting, filter, connVars, bridgeConnected, alerts, sounds, undef,
                   permVars, histVars>>

\* saveSettingsToStorage(): the settings are written to the localStorage
\* item.  No handler calls it; it runs only when called on the client
\* object.
saveSettingsToStorage ==
    /\ storage' = <<settings>>
    /\ fx' = <<>>
    /\ thrown' = "none"
    /\ op' = Op("store")
    /\ rendered' = <<>>
    /\ UNCHANGED <<pending, awaiting, filter, connVars, bridgeConnected, dataVars, undef,
                   permVars, histVars>>

\* openSettings() up to its first await: the settings are requested
OpenSettingsSubmit ==
    /\ Len(pending) + Len(awaiting) < MaxPending
    /\ awaiting' = Append(awaiting, Waiting("openSettings", "", "fetch"))
    /\ fx' = <<Call("fetch", "/api/settings/")>>
    /\ thrown' = "none"
    /\ op' = Op("openSettings.submit")
    /\ rendered' = <<>>
    /\ UNCHANGED <<storage, pending, filter, connVars, bridgeConnected, dataVars, undef,
                   permVars, histVars>>

\* openSettings() between its two awaits
OpenSettingsAnswered(i, ok) == Answered("openSettings", i, ok)

\* openSettings() after await response.json(), for the i-th call still
\* waiting: the answer (null and {} spread nothing) is spread over
\* this.settings and the dialog shown; updateSoundDropdowns raises a
\* TypeError while this.sounds holds undefined
OpenSettingsResponse(i, outcome, data) ==
    /\ i \in 1..Len(awaiting)
    /\ awaiting[i].call = "openSettings"
    /\ awaiting[i].stage = "json"
    /\ outcome \in {"success", "notjson"}
    /\ awaiting' = RemoveAt(awaiting, i)
    /\ settings' = IF outcome = "success" THEN Spread(settings, data) ELSE settings
    /\ fx' = IF outcome = "success" /\ "sounds" \notin undef
             THEN <<Call("showModal", "settings-modal")>> ELSE <<>>
    /\ thrown' = IF outcome = "success" /\ "sounds" \in undef
                 THEN "TypeError" ELSE Rejection(outcome)
    /\ op' = Op("openSettings." \o outcome)
    /\ rendered' = <<>>
    /\ UNCHANGED <<storage, pending, filter, connVars, bridgeConnected, alerts, sounds, undef,
                   permVars, histVars>>

(* ---------------------------- sound catalog ---------------------------- *)
\* file.name.split('.')[0] of a file name kept as its dot-separated parts
FileBase(file) == Head(file)

\* fileSelected and uploadSound(file, customName): the change event of the
\* file input.  With no file chosen (file is <<>>) or the prompt cancelled
\* (answer is <<>>, the null) nothing happens; otherwise a FileReader is
\* started for the upload, under the name answered or, for an empty answer,
\* the base of the file name.
UploadSoundChange(file, answer) ==
    LET starts == file # <<>> /\ answer # <<>>
        customName == IF answer[1] # "" THEN answer[1] ELSE FileBase(file)
    IN
    /\ starts => Len(pending) + Len(awaiting) < MaxPending
    /\ awaiting' = IF starts
                   THEN Append(awaiting, Waiting("uploadSound", customName, "read"))
                   ELSE awaiting
    /\ fx' = <<>>
    /\ thrown' = "none"
    /\ op' = Op(CASE file = <<>>   -> "uploadSound.nofile"
                  [] answer = <<>> -> "uploadSound.cancel"
                  [] OTHER         -> "uploadSound.change")
    /\ rendered' = <<>>
    /\ UNCHANGED <<storage, pending, filter, connVars, bridgeConnected, dataVars, undef,
                   permVars, histVars>>

\* reader.onload up to its first await: the file read is posted
UploadSoundLoad(i) ==
    /\ i \in 1..Len(awaiting)
    /\ awaiting[i].call = "uploadSound"
    /\ awaiting[i].stage = "read"
    /\ awaiting' = AtStage(awaiting, i, "fetch")
    /\ fx' = <<Call("fetch", "/api/sounds/upload/")>>
    /\ thrown' = "none"
    /\ op' = Op("uploadSound.submit")
    /\ rendered' = <<>>
    /\ UNCHANGED <<storage, pending, filter, connVars, bridgeConnected, dataVars, undef,
                   permVars, histVars>>

\* reader.onload between its two awaits
UploadSoundAnswered(i, ok) == Answered("uploadSound", i, ok)

\* reader.onload after await response.json(), for the i-th call still
\* waiting: this.sounds.push(data.sound) on success, which raises a
\* TypeError while this.sounds holds undefined
UploadSoundResponse(i, outcome, sound) ==
    /\ i \in 1..Len(awaiting)
    /\ awaiting[i].call = "uploadSound"
    /\ awaiting[i].stage = "json"
    /\ outcome = "success" /\ "sounds" \notin undef => Len(sounds) <= MaxSounds
    /\ awaiting' = RemoveAt(awaiting, i)
    /\ sounds' = IF outcome = "success" /\ "sounds" \notin undef
                 THEN Append(sounds, sound) ELSE sounds
    /\ fx' = CASE outcome = "success" /\ "sounds" \notin undef ->
                    <<Call("showSnackbar", "Zvuk zagruzhen")>>
               [] outcome = "failure" -> <<Call("showSnackbar", "Oshibka zagruzki")>>
               [] OTHER -> <<>>
    /\ thrown' = IF outcome = "success" /\ "sounds" \in undef
                 THEN "TypeError" ELSE Rejection(outcome)
    /\ op' = Op("uploadSound." \o outcome)
    /\ rendered' = <<>>
    /\ UNCHANGED <<storage, pending, filter, connVars, bridgeConnected, alerts, settings,
                   undef, permVars, histVars>>

\* this.sounds.filter(s => s.id !== soundId): soundId is the string of the
\* button's data-id, and !== holds between a number and any string
WithoutSound(s, soundId) == SelectSeq(s, LAMBDA x : x.id # <<"string", soundId>>)

\* deleteSound(soundId) up to its first await: the user confirms, or not
DeleteSoundSubmit(soundId, confirmed) ==
    /\ confirmed => Len(pending) + Len(awaiting) < MaxPending
    /\ awaiting' = IF confirmed THEN Append(awaiting, Waiting("deleteSound", soundId, "fetch"))
                   ELSE awaiting
    /\ fx' = <<Call("confirm", "")>>
             \o (IF confirmed THEN <<Call("fetch", "/api/sounds/delete/")>> ELSE <<>>)
    /\ thrown' = "none"
    /\ op' = Op(IF confirmed THEN "deleteSound.submit" ELSE "deleteSound.cancel")
    /\ rendered' = <<>>
    /\ UNCHANGED <<storage, pending, filter, connVars, bridgeConnected, dataVars, undef,
                   permVars, histVars>>

\* deleteSound between its two awaits
DeleteSoundAnswered(i, ok) == Answered("deleteSound", i, ok)

\* deleteSound after await response.json(), for the i-th call still waiting
DeleteSoundResponse(i, outcome) ==
    /\ i \in 1..Len(awaiting)
    /\ awaiting[i].call = "deleteSound"
    /\ awaiting[i].stage = "json"
    /\ awaiting' = RemoveAt(awaiting, i)
    /\ sounds' = IF outcome = "success" /\ "sounds" \notin undef
                 THEN WithoutSound(sounds, awaiting[i].arg) ELSE sounds
    /\ fx' = CASE outcome = "success" /\ "sounds" \notin undef ->
                    <<Call("showSnackbar", "Zvuk udalen")>>
               [] outcome = "failure" -> <<Call("showSnackbar", "Oshibka udalenija")>>
               [] OTHER -> <<>>
    /\ thrown' = IF outcome = "success" /\ "sounds" \in undef
                 THEN "TypeError" ELSE Rejection(outcome)
    /\ op' = Op("deleteSound." \o outcome)
    /\ rendered' = <<>>
    /\ UNCHANGED <<storage, pending, filter, connVars, bridgeConnected, alerts, settings,
                   undef, permVars, histVars>>

(* ------------------------------ toolbar -------------------------------- *)
\* refreshAlerts(): the refresh button
RefreshAlerts ==
    /\ fx' = sendMessage(readyState, "get_alerts") \o <<Call("showSnackbar", "Spisok obnovlen")>>
    /\ thrown' = "none"
    /\ op' = Op("refresh")
    /\ rendered' = <<>>
    /\ UNCHANGED <<storeVars, filter, connVars, bridgeConnected, dataVars, undef, permVars,
                   histVars>>

\* filterAlerts(): the change event of the severity-filter select, whose
\* value is already the new one when renderAlerts() reads it
FilterChange(f) ==
    /\ f # filter
    /\ filter' = f
    /\ rendered' = IF "alerts" \in undef THEN <<>> ELSE <<filteredAlerts(alerts, f)>>
    /\ fx' = <<>>
    /\ thrown' = IF "alerts" \in undef THEN "TypeError" ELSE "none"
    /\ op' = Op("filter")
    /\ UNCHANGED <<storeVars, connVars, bridgeConnected, dataVars, undef, permVars, histVars>>

(* -------------------------- inbound frames ----------------------------- *)
\* ws.onmessage fires only on a connection whose readyState is OPEN
Receiving == \E c \in Slots : readyState[c] = "open"

\* a reaction that makes no call to the outside and changes no field
Dropped(name, malformed, exception) ==
    /\ fx' = <<>>
    /\ thrown' = exception
    /\ op' = [Op(name) EXCEPT !.malformed = malformed]
    /\ rendered' = <<>>
    /\ UNCHANGED <<storeVars, filter, connVars, bridgeConnected, dataVars, undef, permVars, histVars>>

\* ws.onmessage, JSON.parse(event.data) raises a SyntaxError
OnUnparsable ==
    /\ Receiving
    /\ Dropped("unparsable", TRUE, "SyntaxError")

\* ws.onmessage, the frame is the JSON text null: data.type raises a TypeError
OnNull ==
    /\ Receiving
    /\ Dropped("null", TRUE, "TypeError")

\* case 'connection'
OnConnection ==
    /\ Receiving
    /\ Dropped("connection", FALSE, "none")

\* case 'status': this.bridgeConnected = data.connected_to_bridge
OnStatus(present, v) ==
    /\ Receiving
    /\ bridgeConnected' = (present /\ v)
    /\ undef' = IF present THEN undef \ {"bridgeConnected"}
                ELSE undef \cup {"bridgeConnected"}
    /\ fx' = <<>>
    /\ thrown' = "none"
    /\ op' = [Op("status") EXCEPT !.malformed = ~present]
    /\ rendered' = <<>>
    /\ UNCHANGED <<storeVars, filter, connVars, dataVars, permVars, histVars>>

\* case 'alert': this.addOrUpdateAlert(data.data)
OnAlert(present, alert) ==
    /\ Receiving
    /\ IF present
       THEN ApplyAlert("alert", alert)
       ELSE Dropped("alert", TRUE, "TypeError")

\* an alerts_list that appends the snapshot to the set instead of replacing it
OnAlertsListAppending(present, list) ==
    /\ Receiving
    /\ alerts' = IF present THEN alerts \o list ELSE <<>>
    /\ rendered' = IF present THEN <<filteredAlerts(alerts \o list, filter)>> ELSE <<>>
    /\ undef' = IF present THEN undef \ {"alerts"} ELSE undef \cup {"alerts"}
    /\ fx' = <<>>
    /\ thrown' = IF present THEN "none" ELSE "TypeError"
    /\ op' = [Op("alerts_list") EXCEPT !.malformed = ~present,
                                        !.list = IF present THEN list ELSE <<>>]
    /\ hLastApplied' = [i \in Ids |-> "none"]
    /\ UNCHANGED <<storeVars, filter, connVars, bridgeConnected, sounds, settings, permVars,
                   hClosures, hRetries, hUserClosed>>

\* case 'alerts_list': this.alerts = data.alerts; this.renderAlerts()
OnAlertsList(present, list) ==
    /\ Receiving
    /\ alerts' = IF present THEN list ELSE <<>>
    /\ rendered' = IF present THEN <<filteredAlerts(list, filter)>> ELSE <<>>
    /\ undef' = IF present THEN undef \ {"alerts"} ELSE undef \cup {"alerts"}
    /\ fx' = <<>>
    /\ thrown' = IF present THEN "none" ELSE "TypeError"
    /\ op' = [Op("alerts_list") EXCEPT !.malformed = ~present,
                                        !.list = IF present THEN list ELSE <<>>]
    /\ hLastApplied' = [i \in Ids |-> "none"]
    /\ UNCHANGED <<storeVars, filter, connVars, bridgeConnected, sounds, settings, permVars,
                   hClosures, hRetries, hUserClosed>>

\* case 'sounds_list': this.sounds = data.sounds; this.updateSoundsUI()
OnSoundsList(present, list) ==
    /\ Receiving
    /\ sounds' = IF present THEN list ELSE <<>>
    /\ undef' = IF present THEN undef \ {"sounds"} ELSE undef \cup {"sounds"}
    /\ fx' = <<>>
    /\ thrown' = IF present THEN "none" ELSE "TypeError"
    /\ op' = [Op("sounds_list") EXCEPT !.malformed = ~present]
    /\ rendered' = <<>>
    /\ UNCHANGED <<storeVars, filter, connVars, bridgeConnected, alerts, settings, permVars, histVars>>

\* case 'bridge.message' if it applied the data of every inner message,
\* whatever its type
OnBridgeMessageUnwrappingAll(shape, alert) ==
    /\ Receiving
    /\ CASE shape = "alert"  -> ApplyAlert("bridge.message", alert)
         [] shape = "other"  -> ApplyAlert("bridge.other", alert)
         [] shape = "none"   -> Dropped("bridge.message", TRUE, "TypeError")
         [] shape = "nodata" -> Dropped("bridge.message", TRUE, "TypeError")

\* case 'bridge.message': shape is "none" (no message field), "alert" (inner
\* alert with its data), "nodata" (inner alert without data) or "other"
\* (an inner message of another type, recorded in op as "bridge.other")
OnBridgeMessage(shape, alert) ==
    /\ Receiving
    /\ CASE shape = "alert"  -> ApplyAlert("bridge.message", alert)
         [] shape = "other"  -> Dropped("bridge.other", FALSE, "none")
         [] shape = "none"   -> Dropped("bridge.message", TRUE, "TypeError")
         [] shape = "nodata" -> Dropped("bridge.message", TRUE, "TypeError")

\* default: console.log('Unknown message type:', data.type)
OnUnknown ==
    /\ Receiving
    /\ Dropped("unknown", TRUE, "none")

\* handleMessage(data), one disjunct per case of the switch
handleMessage ==
    \/ OnConnection
    \/ \E present \in BOOLEAN, v \in BOOLEAN : OnStatus(present, v)
    \/ \E present \in BOOLEAN, a \in Alerts : OnAlert(present, a)
    \/ \E present \in BOOLEAN, l \in Snapshots : OnAlertsList(present, l)
    \/ \E present \in BOOLEAN, l \in SoundLists : OnSoundsList(present, l)
    \/ \E shape \in {"none", "alert", "nodata", "other"}, a \in Alerts : OnBridgeMessage(shape, a)
    \/ OnUnknown

\* ws.onmessage
onmessage == OnUnparsable \/ OnNull \/ handleMessage

(* --------------------------- specifications ---------------------------- *)
Next ==
    \/ \E c \in Slots : OnOpen(c)
    \/ \E c \in Slots : OnClose(c)
    \/ OnTimer
    \/ ToggleDisconnect
    \/ ToggleReconnect
    \/ PermissionChange
    \/ OnUnparsable
    \/ OnNull
    \/ OnConnection
    \/ \E present \in BOOLEAN, v \in BOOLEAN : OnStatus(present, v)
    \/ \E present \in BOOLEAN, a \in Alerts : OnAlert(present, a)
    \/ \E present \in BOOLEAN, l \in Snapshots : OnAlertsList(present, l)
    \/ \E present \in BOOLEAN, l \in SoundLists : OnSoundsList(present, l)
    \/ \E shape \in {"none", "alert", "nodata", "other"}, a \in Alerts : OnBridgeMessage(shape, a)
    \/ OnUnknown
    \/ \E form \in Forms : SaveSettingsSubmit(form)
    \/ \E i \in 1..MaxPending, ok \in BOOLEAN : SaveSettingsAnswered(i, ok)
    \/ \E i \in 1..MaxPending, outcome \in Outcomes :
          SaveSettingsResponse(i, outcome)
    \/ saveSettingsToStorage
    \/ OpenSettingsSubmit
    \/ \E i \in 1..MaxPending, ok \in BOOLEAN : OpenSettingsAnswered(i, ok)
    \/ \E i \in 1..MaxPending, outcome \in {"success", "notjson"}, data \in SettingsAnswers :
          OpenSettingsResponse(i, outcome, data)
    \/ \E file \in Files, answer \in PromptAnswers : UploadSoundChange(file, answer)
    \/ \E i \in 1..MaxPending : UploadSoundLoad(i)
    \/ \E i \in 1..MaxPending, ok \in BOOLEAN : UploadSoundAnswered(i, ok)
    \/ \E i \in 1..MaxPending, outcome \in Outcomes, sound \in UploadedSounds :
          UploadSoundResponse(i, outcome, sound)
    \/ \E soundId \in DatasetIds, confirmed \in BOOLEAN : DeleteSoundSubmit(soundId, confirmed)
    \/ \E i \in 1..MaxPending, ok \in BOOLEAN : DeleteSoundAnswered(i, ok)
    \/ \E i \in 1..MaxPending, outcome \in Outcomes : DeleteSoundResponse(i, outcome)
    \/ RefreshAlerts
    \/ \E f \in Filters : FilterChange(f)

Spec == Init /\ [][Next]_vars

\* The connection lifecycle alone: socket events, the reconnect timer, the
\* connect button, the refresh button and the status frames, with no alert
\* traffic.
NextChannel ==
    \/ \E c \in Slots : OnOpen(c)
    \/ \E c \in Slots : OnClose(c)
    \/ OnTimer
    \/ ToggleDisconnect
    \/ ToggleReconnect
    \/ \E present \in BOOLEAN, v \in BOOLEAN : OnStatus(present, v)
    \/ RefreshAlerts

SpecChannel == Init /\ [][NextChannel]_vars

\* The inbound frames of the first connection, which stays open: every
\* frame shape in every order.  The status frames, which touch nothing but
\* bridgeConnected, are explored with the connection lifecycle.
NextFrames ==
    \/ OnOpen(1)
    \/ PermissionChange
    \/ OnUnparsable
    \/ OnNull
    \/ OnConnection
    \/ \E present \in BOOLEAN, a \in Alerts : OnAlert(present, a)
    \/ \E present \in BOOLEAN, l \in Snapshots : OnAlertsList(present, l)
    \/ \E present \in BOOLEAN, l \in SoundLists : OnSoundsList(present, l)
    \/ \E shape \in {"none", "alert", "nodata", "other"}, a \in Alerts : OnBridgeMessage(shape, a)
    \/ OnUnknown

SpecFrames == Init /\ [][NextFrames]_vars

\* Single-alert traffic only: every sequence of addOrUpdateAlert calls on
\* the alert set the constructor leaves empty.
NextSingle ==
    \/ OnOpen(1)
    \/ PermissionChange
    \/ \E a \in Alerts : OnAlert(TRUE, a)
    \/ \E a \in Alerts : OnBridgeMessage("alert", a)
    \/ \E present \in BOOLEAN, l \in SoundLists : OnSoundsList(present, l)

SpecSingle == Init /\ [][NextSingle]_vars

\* The settings dialog alone: its opening, Save clicks and the backend's
\* answers.
NextSettings ==
    \/ \E form \in Forms : SaveSettingsSubmit(form)
    \/ \E i \in 1..MaxPending, ok \in BOOLEAN : SaveSettingsAnswered(i, ok)
    \/ \E i \in 1..MaxPending, outcome \in Outcomes :
          SaveSettingsResponse(i, outcome)
    \/ saveSettingsToStorage
    \/ OpenSettingsSubmit
    \/ \E i \in 1..MaxPending, ok \in BOOLEAN : OpenSettingsAnswered(i, ok)
    \/ \E i \in 1..MaxPending, outcome \in {"success", "notjson"}, data \in SettingsAnswers :
          OpenSettingsResponse(i, outcome, data)

SpecSettings == Init /\ [][NextSettings]_vars

\* The alert table: alert frames, snapshots and the severity filter.
NextQuery ==
    \/ OnOpen(1)
    \/ \E a \in Alerts : OnAlert(TRUE, a)
    \/ \E present \in BOOLEAN, l \in QuerySnapshots : OnAlertsList(present, l)
    \/ \E f \in Filters : FilterChange(f)

SpecQuery == Init /\ [][NextQuery]_vars

\* The alerts of one id and the sound catalog: sounds_list frames, uploads
\* and deletions.
NextSounds ==
    \/ OnOpen(1)
    \/ \E a \in SoundAlerts : OnAlert(TRUE, a)
    \/ \E present \in BOOLEAN, l \in SoundLists : OnSoundsList(present, l)
    \/ \E file \in Files, answer \in PromptAnswers : UploadSoundChange(file, answer)
    \/ \E i \in 1..MaxPending : UploadSoundLoad(i)
    \/ \E i \in 1..MaxPending, ok \in BOOLEAN : UploadSoundAnswered(i, ok)
    \/ \E i \in 1..MaxPending, outcome \in Outcomes, sound \in UploadedSounds :
          UploadSoundResponse(i, outcome, sound)
    \/ \E soundId \in DatasetIds, confirmed \in BOOLEAN : DeleteSoundSubmit(soundId, confirmed)
    \/ \E i \in 1..MaxPending, ok \in BOOLEAN : DeleteSoundAnswered(i, ok)
    \/ \E i \in 1..MaxPending, outcome \in Outcomes : DeleteSoundResponse(i, outcome)

SpecSounds == Init /\ [][NextSounds]_vars

TypeOK ==
    /\ ws \in Slots
    /\ readyState \in [Slots -> {"connecting", "open", "closing", "closed"}]
    /\ connected \in BOOLEAN
    /\ bridgeConnected \in BOOLEAN
    /\ reconnectAttempts \in Nat
    /\ timers \in 0..MaxTokens
    /\ undef \subseteq {"alerts", "sounds", "bridgeConnected"}
    /\ permission \in {"default", "granted", "denied"}
    /\ thrown \in {"none", "TypeError", "SyntaxError"}
    /\ Tokens <= MaxTokens

(* ------------------------------ claims --------------------------------- *)
Distinct(s) == \A i, j \in 1..Len(s) : i # j => s[i].id # s[j].id

Count(s, e) == Cardinality({i \in 1..Len(s) : s[i] = e})

Applied(o) == o.name \in {"alert", "bridge.message"} /\ ~o.malformed

\* C1: from the empty alert set, after any sequence of addOrUpdateAlert
\* calls with firing or resolved alerts, this.alerts never holds two entries
\* with the same id and never holds an entry whose id was last applied with
\* status resolved.
C1_SingleKeepsSetClean ==
    /\ "alerts" \notin undef
    /\ Distinct(alerts)
    /\ \A i \in 1..Len(alerts) :
         /\ hLastApplied[alerts[i].id] # "resolved"
         /\ alerts[i].status # "resolved"

\* an id was resolved and removed while another one stays in the set
C1_Witness ==
    /\ Len(alerts) = 1
    /\ \E i \in Ids : hLastApplied[i] = "resolved" /\ FindIndex(alerts, i) = -1
    /\ hLastApplied[alerts[1].id] = "firing"

\* C2: in every reachable state, whatever inbound frames were handled
\* (alerts_list snapshots included), this.alerts holds at most one entry per
\* id and no entry whose status is resolved.
C2_SetAlwaysClean ==
    /\ Distinct(alerts)
    /\ \A i \in 1..Len(alerts) : alerts[i].status # "resolved"

\* C3: a click that disconnects starts no automatic reconnect: once the user
\* has closed the connection no reconnect timer is pending, and no new
\* WebSocket is created until the user clicks to reconnect.
C3_UserCloseNoReconnect ==
    [][hUserClosed' =>
          /\ timers' = 0
          /\ hUserClosed => Live(readyState') \subseteq Live(readyState)]_vars

\* C4: after 5 consecutive unexpected close events with no open event and
\* no click in between, no reconnect timer is pending and no WebSocket is
\* being connected.
C4_FiveClosuresEndRetries ==
    hClosures >= maxReconnectAttempts =>
        /\ timers = 0
        /\ \A c \in Slots : readyState[c] # "connecting"

\* C4 as amended: a close event that finds reconnectAttempts at 5 schedules
\* no reconnect; and once reconnectAttempts is 5 with no timer pending and
\* no WebSocket alive, only a click changes the connection (no WebSocket is
\* created, the counter stays).
C4_RetriesEndAtMax ==
    [][/\ (op'.name = "onclose" /\ reconnectAttempts = maxReconnectAttempts)
            => (timers' = timers /\ reconnectAttempts' = reconnectAttempts)
       /\ (/\ reconnectAttempts = maxReconnectAttempts
           /\ timers = 0
           /\ Live(readyState) = {}
           /\ op'.name # "reconnect")
            => (/\ Live(readyState') = {}
                /\ timers' = 0
                /\ reconnectAttempts' = reconnectAttempts)]_vars

\* the constructor's connection and its five retries have all failed
C4_Witness ==
    /\ op.name = "onclose"
    /\ hClosures = maxReconnectAttempts + 1
    /\ reconnectAttempts = maxReconnectAttempts
    /\ timers = 0
    /\ Live(readyState) = {}

\* C5: once the connection the user closed has finished closing, the
\* connection state is {connected: false, bridgeConnected: false,
\* reconnectAttempts: 0}.
C5_DisconnectResetsState ==
    (hUserClosed /\ readyState[ws] = "closed") =>
        /\ ~connected
        /\ ~bridgeConnected
        /\ "bridgeConnected" \notin undef
        /\ reconnectAttempts = 0

\* C6: reconnectAttempts grows by exactly one with every scheduled reconnect
\* and by nothing else, only the reconnect click sets it back to 0, an open
\* event leaves it alone, and at most 5 reconnects are scheduled between
\* two reconnect clicks.
C6_CounterCountsRetries ==
    /\ [](hRetries <= maxReconnectAttempts)
    /\ [][/\ (timers' > timers) <=> (reconnectAttempts' = reconnectAttempts + 1)
          /\ timers' > timers => (timers' = timers + 1 /\ op'.name = "onclose")
          /\ reconnectAttempts' # reconnectAttempts =>
                \/ reconnectAttempts' = reconnectAttempts + 1
                \/ reconnectAttempts' = 0 /\ op'.name = "reconnect"
          /\ op'.name = "onopen" => reconnectAttempts' = reconnectAttempts]_vars

\* a retry succeeded after the counter had reached its maximum
C6_Witness ==
    /\ op.name = "onopen"
    /\ connected
    /\ reconnectAttempts = maxReconnectAttempts
    /\ hRetries = maxReconnectAttempts

AlertSoundCalls(f) == Count(f, Call("playSound", settings.alertSound))
ResolvedSoundCalls(f) == Count(f, Call("playSound", settings.resolvedSound))

\* C7: when a firing alert with id X is applied to a set without X and a
\* resolved alert with id X is applied next, the first makes exactly one
\* alert-sound call and leaves X in the set, the second makes exactly one
\* resolved-sound call and no alert-sound call, and the set is without X.
C7_FiringThenResolved ==
    [][\A X \in Ids :
         (JustArrived(X) /\ Applied(op') /\ op'.id = X /\ op'.status = "resolved") =>
            /\ AlertSoundCalls(fx) = 1
            /\ ResolvedSoundCalls(fx) = 0
            /\ FindIndex(alerts, X) # -1
            /\ op'.index # -1
            /\ ResolvedSoundCalls(fx') = 1
            /\ AlertSoundCalls(fx') = 0
            /\ FindIndex(alerts', X) = -1
            /\ Len(alerts') = Len(alerts) - 1]_vars

\* the resolved alert was applied right after the firing one of the same id
C7_Witness ==
    /\ Applied(op)
    /\ op.chained
    /\ op.status = "resolved"
    /\ ResolvedSoundCalls(fx) = 1
    /\ FindIndex(alerts, op.id) = -1
    /\ Len(alerts) > 0

\* C8: a resolved alert whose id has no entry in this.alerts changes
\* nothing: the set is the same, no call to the outside (sound,
\* notification) is made and no exception is raised.
C8_ResolvedUnknownIsNoOp ==
    [][(/\ Applied(op')
        /\ op'.status = "resolved"
        /\ "alerts" \notin undef
        /\ FindIndex(alerts, op'.id) = -1)
         => (/\ alerts' = alerts
             /\ undef' = undef
             /\ sounds' = sounds
             /\ fx' = <<>>
             /\ thrown' = "none")]_vars

\* a resolved alert with an unknown id was applied to a non-empty set
C8_Witness ==
    /\ Applied(op)
    /\ op.status = "resolved"
    /\ op.index = -1
    /\ "alerts" \notin undef
    /\ Len(alerts) > 0
    /\ FindIndex(alerts, op.id) = -1

\* C9: after an alerts_list frame that carries its alerts, this.alerts is
\* exactly the sequence of the frame and the reaction made no call to the
\* outside (no sound, no notification), whatever this.alerts was before.
C9_SnapshotReplacesSilently ==
    (op.name = "alerts_list" /\ ~op.malformed) =>
        /\ "alerts" \notin undef
        /\ alerts = op.list
        /\ fx = <<>>
        /\ thrown = "none"

\* a snapshot of two entries was installed
C9_Witness ==
    /\ op.name = "alerts_list"
    /\ ~op.malformed
    /\ Len(op.list) = 2
    /\ alerts = op.list

\* C10: a malformed or unrecognized frame is dropped: this.alerts,
\* this.sounds and the connection state stay as they were and no exception
\* leaves the handler.
C10_MalformedFrameDropped ==
    [][op'.malformed =>
          /\ alerts' = alerts
          /\ sounds' = sounds
          /\ undef' = undef
          /\ bridgeConnected' = bridgeConnected
          /\ connVars' = connVars
          /\ thrown' = "none"]_vars

(* --------------------------- settings claims --------------------------- *)
\* C11: a settings update is atomic with full-replace semantics: after the
\* backend has reported success, every submitted field (endpoint URL, both
\* sounds, volume, autoConnect, showNotifications) is the value the other
\* components read from the in-memory settings, and the stored blob holds
\* these settings; after it has reported failure, the in-memory settings and
\* the stored blob are what they were.
C11_SaveIsAtomicFullReplace ==
    /\ [](op.name = "save.success" =>
            LET form == op.form[1] IN
            /\ settings.bridgeServerUrl = form.bridgeServerUrl
            /\ settings.alertSound = form.alertSound
            /\ settings.resolvedSound = form.resolvedSound
            /\ settings.volume = form.notificationVolume
            /\ settings.autoConnect = form.autoConnect
            /\ settings.showNotifications = form.showNotifications
            /\ storage = <<settings>>)
    /\ [][op'.name \in {"save.failure", "save.rejected", "save.null", "save.notjson"} =>
            (settings' = settings /\ storage' = storage)]_vars

(* --------------------------- channel claims ---------------------------- *)
\* C12: every open event of a connection is answered, within the same
\* reaction, by exactly two outbound messages on the connection that
\* opened: get_alerts, then get_sounds.
C12_OpenRequestsSnapshot ==
    op.name = "onopen" =>
        /\ fx = <<Call("send", "get_alerts"), Call("send", "get_sounds")>>
        /\ ws = op.conn

\* the ws.send calls among the calls f
Sends(f) == SelectSeq(f, LAMBDA c : c.call = "send")

\* C13: a refresh while the client's connection is not open transmits
\* nothing and changes no state, and nothing is kept for later: every other
\* reaction sends only its own messages (the open event its two requests,
\* the others none), so the dropped request is never delivered.
C13_SendWhileNotOpenIsNoOp ==
    [][/\ (op'.name = "refresh" /\ readyState[ws] # "open") =>
            /\ Sends(fx') = <<>>
            /\ UNCHANGED <<connVars, bridgeConnected, dataVars, undef, permVars, storeVars,
                           filter>>
       /\ op'.name # "refresh" =>
            Sends(fx') \in {<<>>, <<Call("send", "get_alerts"), Call("send", "get_sounds")>>}
       /\ op'.name \notin {"refresh", "onopen"} => Sends(fx') = <<>>]_vars

\* the refresh button was clicked while the connection was closed and a
\* reconnect was pending
C13_Witness ==
    /\ op.name = "refresh"
    /\ readyState[ws] = "closed"
    /\ timers = 1
    /\ Sends(fx) = <<>>

(* ---------------------------- alert claims ----------------------------- *)
\* the position of the first entry of s with this id
FirstOf(s, id) == CHOOSE i \in 1..Len(s) : s[i].id = id /\ \A j \in 1..(i - 1) : s[j].id # id

\* C14: applying a firing alert whose id is already in the set replaces the
\* stored entry by the new alert and makes no call to the outside (no
\* sound, no notification); the number of entries and every other entry are
\* unchanged.
C14_FiringUpdateReplacesSilently ==
    [][(/\ Applied(op')
        /\ op'.status = "firing"
        /\ "alerts" \notin undef
        /\ \E i \in 1..Len(alerts) : alerts[i].id = op'.id) =>
            LET k == FirstOf(alerts, op'.id) IN
            /\ Len(alerts') = Len(alerts)
            /\ alerts'[k] = [id |-> op'.id, status |-> "firing", severity |-> op'.severity]
            /\ \A i \in 1..Len(alerts) : i # k => alerts'[i] = alerts[i]
            /\ fx' = <<>>
            /\ thrown' = "none"]_vars

\* a firing alert has just replaced the second of two stored entries, with
\* the notifications enabled and granted
C14_Witness ==
    /\ op.name = "alert"
    /\ op.status = "firing"
    /\ op.index = 1
    /\ Len(alerts) = 2
    /\ alerts[2] = [id |-> op.id, status |-> "firing", severity |-> "warning"]
    /\ alerts[1].id # op.id
    /\ settings.showNotifications
    /\ permission = "granted"
    /\ fx = <<>>

\* the last reaction was an Arrived transition: a firing alert whose id was
\* not in the set
Arrived(o) ==
    Applied(o) /\ o.status = "firing" /\ o.index = -1 /\ o.id \in Ids /\ "alerts" \notin undef

\* the last reaction was a Resolved transition: a resolved alert whose id
\* was in the set
Resolved(o) == Applied(o) /\ o.status = "resolved" /\ o.index >= 0

\* C15: on Arrived a notification is raised exactly when showNotifications
\* is enabled and the permission is granted, the permission is requested
\* (and nothing raised) exactly when showNotifications is enabled and the
\* permission is undetermined, and nothing of the two happens otherwise;
\* the alert sound is triggered on every Arrived and the resolved sound on
\* every Resolved, whatever showNotifications and the permission are.
C15_SideEffectGating ==
    /\ Arrived(op) =>
         /\ Count(fx, Call("Notification", "Novyj alert"))
              = IF settings.showNotifications /\ permission = "granted" THEN 1 ELSE 0
         /\ Count(fx, Call("requestPermission", ""))
              = IF settings.showNotifications /\ permission = "default" THEN 1 ELSE 0
         /\ AlertSoundCalls(fx) = 1
    /\ Resolved(op) => ResolvedSoundCalls(fx) = 1

\* C16: a bridge.message whose inner type is alert yields, from the same
\* prior state, the alert set, the calls to the outside and the outcome
\* that addOrUpdateAlert yields for the same alert received directly, and
\* touches nothing else; a bridge.message with another inner type changes
\* nothing and makes no call.
C16_EnvelopeAppliedAsAlert ==
    [][/\ (op'.name \in {"alert", "bridge.message"} /\ ~op'.malformed) =>
            LET r == addOrUpdateAlert([id |-> op'.id, status |-> op'.status,
                                       severity |-> op'.severity]) IN
            /\ alerts' = r.alerts
            /\ fx' = r.fx
            /\ thrown' = r.thrown
            /\ UNCHANGED <<connVars, bridgeConnected, sounds, settings, undef, permVars,
                           storeVars, filter>>
       /\ op'.name = "bridge.other" =>
            /\ fx' = <<>>
            /\ thrown' = "none"
            /\ rendered' = <<>>
            /\ UNCHANGED <<connVars, bridgeConnected, dataVars, undef, permVars, storeVars,
                           filter>>]_vars

\* an enveloped firing alert has just arrived with its sound and its
\* notification, next to an entry that was already stored
C16_Witness ==
    /\ op.name = "bridge.message"
    /\ ~op.malformed
    /\ op.status = "firing"
    /\ op.index = -1
    /\ Len(alerts) = 2
    /\ alerts[2].id = op.id
    /\ fx = <<Call("playSound", settings.alertSound),
              Call("Audio.play", settings.alertSound),
              Call("Notification", "Novyj alert")>>

(* ---------------------------- table claims ----------------------------- *)
\* the positions of the entries of s that the filter value f selects
Selected(s, f) == {i \in 1..Len(s) : f = "all" \/ s[i].severity = f}

\* the k-th smallest member of the set of positions P
Nth(P, k) == CHOOSE i \in P : Cardinality({j \in P : j < i}) = k - 1

\* C17: what the table shows is exactly the entries of the alert set whose
\* severity equals the filter, in the order of the set, and the whole set
\* when the filter is all; changing the filter does not modify the set.
C17_FilterSelectsBySeverity ==
    /\ [](rendered # <<>> =>
            LET rows == rendered[1]
                P == Selected(alerts, filter)
            IN  /\ Len(rows) = Cardinality(P)
                /\ \A k \in 1..Len(rows) : rows[k] = alerts[Nth(P, k)]
                /\ filter = "all" => rows = alerts)
    /\ [][op'.name = "filter" => (alerts' = alerts /\ undef' = undef)]_vars

\* the set holds a critical alert then a warning one, and the filter has
\* just been set to critical: the table shows the critical one only
C17_Witness ==
    /\ op.name = "filter"
    /\ filter = "critical"
    /\ alerts = <<[id |-> 1, status |-> "firing", severity |-> "critical"],
                  [id |-> 2, status |-> "firing", severity |-> "warning"]>>
    /\ rendered = <<(<<alerts[1]>>)>>

(* ------------------------- connection invariants ----------------------- *)
\* C18: at any time at most one WebSocket is connecting or open and at most
\* one reconnect timer is pending.
C18_OneConnectionOneTimer ==
    /\ Cardinality({c \in Slots : readyState[c] \in {"connecting", "open"}}) <= 1
    /\ timers <= 1

\* C19: the connected flag is true exactly when the WebSocket the client
\* holds in this.ws is open (counting as open a WebSocket that is completing
\* the close the user asked for, until its close event).
C19_ConnectedIffCurrentOpen ==
    connected <=> readyState[ws] \in {"open", "closing"}

\* C20: bridgeConnected implies connected.
C20_BridgeImpliesConnected ==
    (bridgeConnected /\ "bridgeConnected" \notin undef) => connected

\* C21: in every reachable state reconnectAttempts is at least 0 and at
\* most maxReconnectAttempts (5), however the close events of one or several
\* connections, the timer expiries and the reconnect clicks interleave.
C21_AttemptsWithinBounds ==
    reconnectAttempts \in 0..maxReconnectAttempts

\* a close event has just left the counter at its maximum while another
\* connection of the client is still alive
C21_Witness ==
    /\ op.name = "onclose"
    /\ reconnectAttempts = maxReconnectAttempts
    /\ Cardinality(Live(readyState)) = 1

====
